---- MODULE Spec2Model ----
(***************************************************************************)
(* The four plotting scripts of MT25082_PA02 as a state machine.           *)
(*                                                                         *)
(* Every script is a straight-line program: literal arrays, a figure,      *)
(* plot / axis calls, savefig, print.  An invocation is a process that     *)
(* executes the statements of its script one at a time; invocations share  *)
(* only the file system.  Decimal literals are kept exactly as             *)
(* <<digits, places>> (0.1032 is <<1032, 4>>); the dash and micro signs of *)
(* the titles are written in ASCII.                                        *)
(***************************************************************************)
EXTENDS Integers, Sequences, FiniteSets, TLC

VARIABLES text, script, pc, status, fig, stdout, attempts, writes, files

vars == <<text, script, pc, status, fig, stdout, attempts, writes, files>>

\* Number of invocation slots of the general specification.
MaxRuns == 2

Scripts == {"cache_misses", "cycles_per_byte", "latency", "throughput"}

\* The order in which SpecFour launches one process per script.
ScriptList == <<"cache_misses", "cycles_per_byte", "latency", "throughput">>

Dec(digits, places) == <<digits, places>>

(***************************************************************************)
(* Literal data of each script (the module-level lists).                   *)
(***************************************************************************)
CacheMissesData ==
    [msg_sizes     |-> <<64, 256, 1024, 4096>>,
     l1_misses_a1  |-> <<291968304, 309217729, 307166401, 347778830>>,
     l1_misses_a2  |-> <<286537273, 314324731, 346897605, 513598431>>,
     l1_misses_a3  |-> <<295035969, 294291095, 289806198, 454019805>>,
     llc_misses_a1 |-> <<26389, 18359, 19765, 24503>>,
     llc_misses_a2 |-> <<20707, 25050, 78139, 1652451>>,
     llc_misses_a3 |-> <<8207, 9827, 6801, 12790>>]

CyclesPerByteData ==
    [msg_sizes          |-> <<64, 256, 1024, 4096>>,
     cycles_per_byte_a1 |-> <<Dec(6440, 1), Dec(1617, 1), Dec(413, 1), Dec(108, 1)>>,
     cycles_per_byte_a2 |-> <<Dec(1011, 1), Dec(255, 1), Dec(62, 1), Dec(19, 1)>>,
     cycles_per_byte_a3 |-> <<Dec(1282, 1), Dec(297, 1), Dec(71, 1), Dec(22, 1)>>]

LatencyData ==
    [thread_counts |-> <<1, 2, 4, 8>>,
     latency_a1    |-> <<Dec(1456, 2), Dec(730, 2), Dec(395, 2), Dec(284, 2)>>,
     latency_a2    |-> <<Dec(224, 2), Dec(111, 2), Dec(58, 2), Dec(41, 2)>>,
     latency_a3    |-> <<Dec(343, 2), Dec(172, 2), Dec(105, 2), Dec(78, 2)>>]

\* A copy of the throughput data in which one value of throughput_a2 was lost.
ThroughputDataShort ==
    [msg_sizes     |-> <<64, 256, 1024, 4096>>,
     throughput_a1 |-> <<Dec(1032, 4), Dec(4394, 4), Dec(16734, 4), Dec(62939, 4)>>,
     throughput_a2 |-> <<Dec(7531, 4), Dec(3064, 3), Dec(114204, 4)>>,
     throughput_a3 |-> <<Dec(386, 3), Dec(17111, 4), Dec(64895, 4), Dec(243144, 4)>>]

ThroughputData ==
    [msg_sizes     |-> <<64, 256, 1024, 4096>>,
     throughput_a1 |-> <<Dec(1032, 4), Dec(4394, 4), Dec(16734, 4), Dec(62939, 4)>>,
     throughput_a2 |-> <<Dec(7531, 4), Dec(3064, 3), Dec(114204, 4), Dec(39766, 3)>>,
     throughput_a3 |-> <<Dec(386, 3), Dec(17111, 4), Dec(64895, 4), Dec(243144, 4)>>]

ShippedData(s) ==
    CASE s = "cache_misses"    -> CacheMissesData
      [] s = "cycles_per_byte" -> CyclesPerByteData
      [] s = "latency"         -> LatencyData
      [] s = "throughput"      -> ThroughputData

\* The names of the y-series lists of a script, in declaration order, and the
\* name of the list used as its x-axis.
SeriesNames(s) ==
    CASE s = "cache_misses"    -> <<"l1_misses_a1", "l1_misses_a2", "l1_misses_a3",
                                    "llc_misses_a1", "llc_misses_a2", "llc_misses_a3">>
      [] s = "cycles_per_byte" -> <<"cycles_per_byte_a1", "cycles_per_byte_a2",
                                    "cycles_per_byte_a3">>
      [] s = "latency"         -> <<"latency_a1", "latency_a2", "latency_a3">>
      [] s = "throughput"      -> <<"throughput_a1", "throughput_a2", "throughput_a3">>

AxisName(s) == IF s = "latency" THEN "thread_counts" ELSE "msg_sizes"

(***************************************************************************)
(* Output paths and confirmation lines: the two string literals at the end *)
(* of each script.                                                         *)
(***************************************************************************)
CacheMissesPath == "MT25082_cache_misses.png"

CacheMissesSavedLine == "Saved: MT25082_cache_misses.png"

CyclesPerBytePath == "MT25082_cycles_per_byte.png"

CyclesPerByteSavedLine == "Saved: MT25082_cycles_per_byte.png"

\* The latency script saving under the throughput script's name.
LatencyPathClash == "MT25082_throughput.png"

LatencyPath == "MT25082_latency.png"

LatencySavedLine == "Saved: MT25082_latency.png"

ThroughputPath == "MT25082_throughput.png"

\* A confirmation line naming another file than the one saved.
ThroughputSavedLineOther == "Saved: MT25082_throughput_plot.png"

ThroughputSavedLine == "Saved: MT25082_throughput.png"

Paths == {"MT25082_cache_misses.png", "MT25082_cycles_per_byte.png",
          "MT25082_latency.png", "MT25082_throughput.png"}

(***************************************************************************)
(* Statements.  ax = 0 addresses the figure, ax = k its k-th panel.        *)
(***************************************************************************)
I(op, ax, arg) == [op |-> op, ax |-> ax, arg |-> arg]

PlotI(ax, x, y, marker, color, label) ==
    I("plot", ax, [x |-> x, y |-> y, marker |-> marker, color |-> color,
                   label |-> label])

A1Label == "A1: Two-Copy (send/recv)"

A2Label == "A2: One-Copy (sendmsg + iovec)"

A3Label == "A3: Zero-Copy (MSG_ZEROCOPY)"

Finish(path, line, texty) ==
    << I("text", 0, texty),
       I("tight_layout", 0, <<>>),
       I("savefig", 0, [path |-> path, dpi |-> 200, bbox_inches |-> "tight"]),
       I("print", 0, line) >>

Decor(ax, legendsize, legendloc, labelsize) ==
    << I("tick_params", ax, labelsize),
       I("grid", ax, "--"),
       I("legend", ax, [fontsize |-> legendsize, loc |-> legendloc]) >>

Labels(ax, xlabel, ylabel, title) ==
    << I("set_xlabel", ax, xlabel),
       I("set_ylabel", ax, ylabel),
       I("set_title", ax, title) >>

\* x-axis set-up of a log-scale panel: scale, then tick positions, then labels.
LogAxisSetup(ax, xs) ==
    << I("set_xscale", ax, [name |-> "log", base |-> 2]),
       I("set_xticks", ax, xs),
       I("set_xticklabels", ax, xs) >>

ThreadsConfig == "System: Linux 6.14.0 | ... | Threads: avg across 1,2,4,8"

MsgSizesConfig == "System: Linux 6.14.0 | ... | Msg sizes: avg across 64,256,1024,4096"

(***************************************************************************)
(* MT25082_plot_cache_misses.py                                            *)
(***************************************************************************)
CacheMissesL1Plots ==
    << PlotI(1, "msg_sizes", "l1_misses_a1", "o", "#e74c3c", A1Label),
       PlotI(1, "msg_sizes", "l1_misses_a2", "s", "#2ecc71", A2Label),
       PlotI(1, "msg_sizes", "l1_misses_a3", "^", "#3498db", A3Label) >>

CacheMissesLLCPlots ==
    << PlotI(2, "msg_sizes", "llc_misses_a1", "o", "#e74c3c", A1Label),
       PlotI(2, "msg_sizes", "llc_misses_a2", "s", "#2ecc71", A2Label),
       PlotI(2, "msg_sizes", "llc_misses_a3", "^", "#3498db", A3Label) >>

CacheMissesL1AxisSetup == LogAxisSetup(1, "msg_sizes")

\* The right panel with the scale call moved below the tick calls.
CacheMissesLLCAxisSetupScaleLast ==
    << I("set_xticks", 2, "msg_sizes"),
       I("set_xticklabels", 2, "msg_sizes"),
       I("set_xscale", 2, [name |-> "log", base |-> 2]) >>

CacheMissesLLCAxisSetup == LogAxisSetup(2, "msg_sizes")

CacheMissesProg ==
    << I("subplots", 0, [ncols |-> 2, figsize |-> <<14, 6>>]) >>
    \o CacheMissesL1Plots
    \o Labels(1, "Message Size (bytes)", "L1 Data Cache Misses",
              "L1 Cache Misses vs Message Size")
    \o CacheMissesL1AxisSetup
    \o Decor(1, 9, "upper left", 10)
    \o CacheMissesLLCPlots
    \o Labels(2, "Message Size (bytes)", "LLC Load Misses",
              "LLC Load Misses vs Message Size")
    \o CacheMissesLLCAxisSetup
    \o Decor(2, 9, "upper left", 10)
    \o << I("suptitle", 0,
            "Cache Misses vs Message Size - Network I/O Primitives Comparison") >>
    \o Finish(CacheMissesPath, CacheMissesSavedLine, ThreadsConfig)

(***************************************************************************)
(* MT25082_plot_cycles_per_byte.py                                         *)
(***************************************************************************)
CyclesPerBytePlots ==
    << PlotI(1, "msg_sizes", "cycles_per_byte_a1", "o", "#e74c3c", A1Label),
       PlotI(1, "msg_sizes", "cycles_per_byte_a2", "s", "#2ecc71", A2Label),
       PlotI(1, "msg_sizes", "cycles_per_byte_a3", "^", "#3498db", A3Label) >>

CyclesPerByteAxisSetup == LogAxisSetup(1, "msg_sizes")

CyclesPerByteProg ==
    << I("subplots", 0, [ncols |-> 1, figsize |-> <<10, 6>>]) >>
    \o CyclesPerBytePlots
    \o Labels(1, "Message Size (bytes)", "CPU Cycles per Byte Transferred",
              "CPU Cycles per Byte vs Message Size - Network I/O Primitives Comparison")
    \o CyclesPerByteAxisSetup
    \o Decor(1, 11, "upper right", 11)
    \o Finish(CyclesPerBytePath, CyclesPerByteSavedLine, ThreadsConfig)

(***************************************************************************)
(* MT25082_plot_latency.py                                                 *)
(***************************************************************************)
LatencyPlots ==
    << PlotI(1, "thread_counts", "latency_a1", "o", "#e74c3c", A1Label),
       PlotI(1, "thread_counts", "latency_a2", "s", "#2ecc71", A2Label),
       PlotI(1, "thread_counts", "latency_a3", "^", "#3498db", A3Label) >>

\* The latency axis set-up with the log-scale call of the other scripts pasted in.
LatencyAxisSetupLog == LogAxisSetup(1, "thread_counts")

\* No set_xscale call: the panel keeps the scale it was created with.
LatencyAxisSetup ==
    << I("set_xticks", 1, "thread_counts"),
       I("set_xticklabels", 1, "thread_counts") >>

LatencyProg ==
    << I("subplots", 0, [ncols |-> 1, figsize |-> <<10, 6>>]) >>
    \o LatencyPlots
    \o Labels(1, "Thread Count", "Average Latency (us / message)",
              "Latency vs Thread Count - Network I/O Primitives Comparison")
    \o LatencyAxisSetup
    \o Decor(1, 11, "upper left", 11)
    \o Finish(LatencyPath, LatencySavedLine, MsgSizesConfig)

(***************************************************************************)
(* MT25082_plot_throughput.py                                              *)
(***************************************************************************)
\* The first plot call drawing the one-copy list, the second the two-copy list.
ThroughputPlotsSwapped ==
    << PlotI(1, "msg_sizes", "throughput_a2", "o", "#e74c3c", A1Label),
       PlotI(1, "msg_sizes", "throughput_a1", "s", "#2ecc71", A2Label),
       PlotI(1, "msg_sizes", "throughput_a3", "^", "#3498db", A3Label) >>

ThroughputPlots ==
    << PlotI(1, "msg_sizes", "throughput_a1", "o", "#e74c3c", A1Label),
       PlotI(1, "msg_sizes", "throughput_a2", "s", "#2ecc71", A2Label),
       PlotI(1, "msg_sizes", "throughput_a3", "^", "#3498db", A3Label) >>

ThroughputAxisSetup == LogAxisSetup(1, "msg_sizes")

ThroughputProg ==
    << I("subplots", 0, [ncols |-> 1, figsize |-> <<10, 6>>]) >>
    \o ThroughputPlots
    \o Labels(1, "Message Size (bytes)", "Throughput (Gbps)",
              "Throughput vs Message Size - Network I/O Primitives Comparison")
    \o ThroughputAxisSetup
    \o Decor(1, 11, "upper left", 11)
    \o Finish(ThroughputPath, ThroughputSavedLine, ThreadsConfig)

Prog(s) ==
    CASE s = "cache_misses"    -> CacheMissesProg
      [] s = "cycles_per_byte" -> CyclesPerByteProg
      [] s = "latency"         -> LatencyProg
      [] s = "throughput"      -> ThroughputProg

(***************************************************************************)
(* Values the library calls work on.                                       *)
(***************************************************************************)
Digit(d) ==
    CASE d = 0 -> "0" [] d = 1 -> "1" [] d = 2 -> "2" [] d = 3 -> "3"
      [] d = 4 -> "4" [] d = 5 -> "5" [] d = 6 -> "6" [] d = 7 -> "7"
      [] d = 8 -> "8" [] d = 9 -> "9"

RECURSIVE Str(_)
\* str(n) of a non-negative int: its decimal digits.
Str(n) == IF n < 10 THEN Digit(n) ELSE Str(n \div 10) \o Digit(n % 10)

\* [str(s) for s in xs]
StrList(xs) == [k \in 1..Len(xs) |-> Str(xs[k])]

\* A panel as plt.subplots creates it: no lines, linear x-scale, ticks and
\* tick labels chosen by the library.
NewAxes ==
    [lines       |-> <<>>,
     xscale      |-> [name |-> "linear", base |-> 0],
     xticks      |-> [fixed |-> FALSE, at |-> <<>>],
     xticklabels |-> [fixed |-> FALSE, labels |-> <<>>],
     xlabel      |-> "",
     ylabel      |-> "",
     title       |-> "",
     ylabelsize  |-> 0,
     grid        |-> "",
     legend      |-> [fontsize |-> 0, loc |-> ""]]

NoFig == [figsize |-> <<0, 0>>, axes |-> <<>>, suptitle |-> "", texts |-> <<>>,
          tight |-> FALSE]

\* A lenient length test: any two lists pass.
ShapeOKAny(x, y) == TRUE

\* ax.plot(x, y): the two lists must have the same length.
ShapeOK(x, y) == Len(x) = Len(y)

\* The line ax.plot adds to its panel.
Line(x, y, a) ==
    [x |-> x, y |-> y, marker |-> a.marker, color |-> a.color, label |-> a.label]

\* What savefig rasterizes: the figure as it stands, with the call's options.
Render(f, a) == [fig |-> f, dpi |-> a.dpi, bbox_inches |-> a.bbox_inches]

\* A file opened for appending: an existing file keeps what it held.
WriteFileAppend(old, content) == old \o <<content>>

\* The file after a successful write: it holds the new content alone.
WriteFile(old, content) == <<content>>

(***************************************************************************)
(* State.                                                                  *)
(*   text      the literal lists of each script's program text             *)
(*   script    the script an invocation runs ("none" before it starts)     *)
(*   pc        the statement the invocation is at                          *)
(*   status    "idle", "running", "done" or "failed" (uncaught exception)  *)
(*   fig       the invocation's figure                                     *)
(*   stdout    the lines the invocation has printed                        *)
(*   attempts  the savefig calls the invocation has made                   *)
(*   writes    the writes of the invocation that completed                 *)
(*   files     the working directory: <<>> or <<content>> per path         *)
(***************************************************************************)
Procs == DOMAIN pc

ShippedText == [s \in Scripts |-> ShippedData(s)]

RemoveAt(xs, i) == SubSeq(xs, 1, i - 1) \o SubSeq(xs, i + 1, Len(xs))

\* The program texts with one value removed from one series list.
EditedTexts ==
    UNION { UNION { { [ShippedText EXCEPT ![s][SeriesNames(s)[k]] = RemoveAt(@, i)] :
                        i \in 1..Len(ShippedText[s][SeriesNames(s)[k]]) } :
                    k \in 1..Len(SeriesNames(s)) } :
            s \in Scripts }

InitProcs(n, texts) ==
    /\ text \in texts
    /\ script = [p \in 1..n |-> "none"]
    /\ pc = [p \in 1..n |-> 0]
    /\ status = [p \in 1..n |-> "idle"]
    /\ fig = [p \in 1..n |-> NoFig]
    /\ stdout = [p \in 1..n |-> <<>>]
    /\ attempts = [p \in 1..n |-> 0]
    /\ writes = [p \in 1..n |-> <<>>]
    /\ files = [f \in Paths |-> <<>>]

Init == InitProcs(MaxRuns, {ShippedText})

InitFour == InitProcs(Len(ScriptList), {ShippedText})

InitEdit == InitProcs(1, {ShippedText} \cup EditedTexts)

Running(p) == status[p] = "running" /\ pc[p] <= Len(Prog(script[p]))

Instr(p) == Prog(script[p])[pc[p]]

At(p, op) == Running(p) /\ Instr(p).op = op

Lookup(p, name) == text[script[p]][name]

\* The statement changed the figure and control moves to the next statement.
Advance(p, f) ==
    /\ fig' = [fig EXCEPT ![p] = f]
    /\ pc' = [pc EXCEPT ![p] = @ + 1]
    /\ UNCHANGED <<text, script, status, stdout, attempts, writes, files>>

\* An exception nobody catches: the interpreter stops at this statement.
Raise(p) ==
    /\ status' = [status EXCEPT ![p] = "failed"]
    /\ UNCHANGED <<text, script, pc, fig, stdout, writes, files>>

OnAxes(p, field, value) ==
    Advance(p, [fig[p] EXCEPT !.axes[Instr(p).ax][field] = value])

(***************************************************************************)
(* Actions: one per statement kind, plus process start and exit.           *)
(***************************************************************************)
\* python3 <script>: a fresh interpreter, nothing read from the environment.
Start(p, s) ==
    /\ status[p] = "idle"
    /\ script' = [script EXCEPT ![p] = s]
    /\ pc' = [pc EXCEPT ![p] = 1]
    /\ status' = [status EXCEPT ![p] = "running"]
    /\ UNCHANGED <<text, fig, stdout, attempts, writes, files>>

\* fig, ax(es) = plt.subplots(...)
Subplots(p) ==
    /\ At(p, "subplots")
    /\ Advance(p, [NoFig EXCEPT !.figsize = Instr(p).arg.figsize,
                                !.axes = [k \in 1..Instr(p).arg.ncols |-> NewAxes]])

\* ax.plot(x, y, ...): a line of the two lists, or a ValueError when their
\* lengths differ.
Plot(p) ==
    /\ At(p, "plot")
    /\ LET a == Instr(p).arg
           x == Lookup(p, a.x)
           y == Lookup(p, a.y)
       IN  IF ShapeOK(x, y)
           THEN OnAxes(p, "lines", Append(fig[p].axes[Instr(p).ax].lines, Line(x, y, a)))
           ELSE Raise(p) /\ UNCHANGED attempts

SetXLabel(p) == At(p, "set_xlabel") /\ OnAxes(p, "xlabel", Instr(p).arg)

SetYLabel(p) == At(p, "set_ylabel") /\ OnAxes(p, "ylabel", Instr(p).arg)

SetTitle(p) == At(p, "set_title") /\ OnAxes(p, "title", Instr(p).arg)

\* ax.set_xscale(...): the new scale installs its own tick locator and
\* formatter, dropping ticks and labels set before.
SetXScale(p) ==
    /\ At(p, "set_xscale")
    /\ Advance(p, [fig[p] EXCEPT !.axes[Instr(p).ax].xscale = Instr(p).arg,
                                 !.axes[Instr(p).ax].xticks = NewAxes.xticks,
                                 !.axes[Instr(p).ax].xticklabels = NewAxes.xticklabels])

\* ax.set_xticks(xs): ticks fixed at the values of the list.
SetXTicks(p) ==
    /\ At(p, "set_xticks")
    /\ OnAxes(p, "xticks", [fixed |-> TRUE, at |-> Lookup(p, Instr(p).arg)])

\* ax.set_xticklabels([str(s) for s in xs])
SetXTickLabels(p) ==
    /\ At(p, "set_xticklabels")
    /\ OnAxes(p, "xticklabels",
              [fixed |-> TRUE, labels |-> StrList(Lookup(p, Instr(p).arg))])

TickParams(p) == At(p, "tick_params") /\ OnAxes(p, "ylabelsize", Instr(p).arg)

Grid(p) == At(p, "grid") /\ OnAxes(p, "grid", Instr(p).arg)

Legend(p) == At(p, "legend") /\ OnAxes(p, "legend", Instr(p).arg)

Suptitle(p) ==
    /\ At(p, "suptitle")
    /\ Advance(p, [fig[p] EXCEPT !.suptitle = Instr(p).arg])

FigText(p) ==
    /\ At(p, "text")
    /\ Advance(p, [fig[p] EXCEPT !.texts = Append(@, Instr(p).arg)])

TightLayout(p) ==
    /\ At(p, "tight_layout")
    /\ Advance(p, [fig[p] EXCEPT !.tight = TRUE])

\* plt.savefig(path, ...) when the file can be opened: the image is written.
SavefigOK(p) ==
    /\ At(p, "savefig")
    /\ LET path == Instr(p).arg.path
           content == Render(fig[p], Instr(p).arg)
       IN  /\ files' = [files EXCEPT ![path] = WriteFile(@, content)]
           /\ writes' = [writes EXCEPT ![p] = Append(@, [path |-> path, content |-> content])]
    /\ attempts' = [attempts EXCEPT ![p] = @ + 1]
    /\ pc' = [pc EXCEPT ![p] = @ + 1]
    /\ UNCHANGED <<text, script, status, fig, stdout>>

\* The error handled and the script carrying on with its next statement.
SavefigErrorSwallowed(p) ==
    /\ pc' = [pc EXCEPT ![p] = @ + 1]
    /\ UNCHANGED <<text, script, status, fig, stdout, writes, files>>

\* The OSError of a savefig whose path cannot be opened for writing: there is
\* no try/except around the call, so it ends the run.
SavefigError(p) == Raise(p)

\* plt.savefig(path, ...) when the path is not writable.
SavefigFail(p) ==
    /\ At(p, "savefig")
    /\ attempts' = [attempts EXCEPT ![p] = @ + 1]
    /\ SavefigError(p)

\* print('Saved: ...')
PrintLine(p) ==
    /\ At(p, "print")
    /\ stdout' = [stdout EXCEPT ![p] = Append(@, Instr(p).arg)]
    /\ pc' = [pc EXCEPT ![p] = @ + 1]
    /\ UNCHANGED <<text, script, status, fig, attempts, writes, files>>

\* End of the script: the interpreter exits normally.
Exit(p) ==
    /\ status[p] = "running"
    /\ pc[p] = Len(Prog(script[p])) + 1
    /\ status' = [status EXCEPT ![p] = "done"]
    /\ UNCHANGED <<text, script, pc, fig, stdout, attempts, writes, files>>

Step(p) ==
    \/ Subplots(p)
    \/ Plot(p)
    \/ SetXLabel(p)
    \/ SetYLabel(p)
    \/ SetTitle(p)
    \/ SetXScale(p)
    \/ SetXTicks(p)
    \/ SetXTickLabels(p)
    \/ TickParams(p)
    \/ Grid(p)
    \/ Legend(p)
    \/ Suptitle(p)
    \/ FigText(p)
    \/ TightLayout(p)
    \/ SavefigOK(p)
    \/ SavefigFail(p)
    \/ PrintLine(p)
    \/ Exit(p)

\* Any invocation may run any script.
Next == \E p \in Procs : (\E s \in Scripts : Start(p, s)) \/ Step(p)

\* One process per script.
NextFour == \E p \in Procs : Start(p, ScriptList[p]) \/ Step(p)

\* Invocations of any scripts, run and rerun, possibly at the same time.
Spec == Init /\ [][Next]_vars

\* The four scripts launched together, one process each.
SpecFour == InitFour /\ [][NextFour]_vars

\* One invocation of a program text that is the shipped one or has one value
\* removed from one series list.
SpecEdit == InitEdit /\ [][Next]_vars

(***************************************************************************)
(* Vocabulary of the claims.                                               *)
(***************************************************************************)
Started(p) == status[p] # "idle"

\* The paths an invocation has written so far.
WrittenPaths(p) == { writes[p][k].path : k \in 1..Len(writes[p]) }

\* The statements of a script that plot a series.
PlotSteps(s) == { k \in 1..Len(Prog(s)) : Prog(s)[k].op = "plot" }

\* All lines of a figure, panel by panel.
LinesOf(f) ==
    UNION { { f.axes[k].lines[j] : j \in 1..Len(f.axes[k].lines) } : k \in 1..Len(f.axes) }

LogScripts == Scripts \ {"latency"}

\* The file name a chart type is expected under.
OutputName(s) == "MT25082_" \o s \o ".png"

\* The series lists of a script whose length differs from its x-axis list.
Mismatched(s) ==
    { k \in 1..Len(SeriesNames(s)) :
        Len(text[s][SeriesNames(s)[k]]) # Len(text[s][AxisName(s)]) }

(***************************************************************************)
(* C1.  Whenever a script is about to plot a series, the series list and   *)
(* the x-axis list of that plot call have the same length, 4; every line   *)
(* already drawn has 4 x-values and 4 y-values; and the scripts plot 6, 3, *)
(* 3 and 3 series (15 in all).                                             *)
(***************************************************************************)
C1_SeriesMatchAxis ==
    \A p \in Procs :
        Started(p) =>
            /\ Cardinality(PlotSteps(script[p])) =
                   (IF script[p] = "cache_misses" THEN 6 ELSE 3)
            /\ At(p, "plot") =>
                   /\ Len(Lookup(p, Instr(p).arg.y)) = Len(Lookup(p, Instr(p).arg.x))
                   /\ Len(Lookup(p, Instr(p).arg.x)) = 4
            /\ \A l \in LinesOf(fig[p]) : Len(l.y) = 4 /\ Len(l.x) = 4

\* A script stands at the plot call of its last series with the others drawn.
C1_Witness ==
    \E p \in Procs :
        /\ At(p, "plot")
        /\ script[p] = "throughput"
        /\ Instr(p).arg.y = "throughput_a3"
        /\ Len(fig[p].axes[1].lines) = 2

(***************************************************************************)
(* C2.  An invocation prints at most one line; a printed line is "Saved: " *)
(* followed by the path of the one write the invocation completed before,  *)
(* and the file exists; a run that ended normally printed exactly one.     *)
(***************************************************************************)
C2_SavedAfterWrite ==
    \A p \in Procs :
        /\ Len(stdout[p]) <= 1
        /\ stdout[p] # <<>> =>
               /\ Len(writes[p]) = 1
               /\ stdout[p][1] = "Saved: " \o writes[p][1].path
               /\ files[writes[p][1].path] # <<>>
        /\ status[p] = "done" => Len(stdout[p]) = 1 /\ Len(writes[p]) = 1

\* The throughput script has ended normally, its line printed.
C2_Witness ==
    \E p \in Procs :
        /\ status[p] = "done"
        /\ script[p] = "throughput"
        /\ stdout[p] = <<"Saved: MT25082_throughput.png">>

(***************************************************************************)
(* C3.  An invocation whose savefig did not complete is failed, still at   *)
(* its savefig statement, has called savefig exactly once, has written     *)
(* nothing and has printed nothing.                                        *)
(***************************************************************************)
C3_WriteFailureIsFatal ==
    \A p \in Procs :
        attempts[p] > Len(writes[p]) =>
            /\ status[p] = "failed"
            /\ Instr(p).op = "savefig"
            /\ attempts[p] = 1
            /\ writes[p] = <<>>
            /\ stdout[p] = <<>>

\* The latency script failed at its savefig.
C3_Witness ==
    \E p \in Procs :
        /\ script[p] = "latency"
        /\ status[p] = "failed"
        /\ attempts[p] = 1
        /\ files["MT25082_latency.png"] = <<>>

(***************************************************************************)
(* C4.  An invocation of a script one of whose series lists lost a value   *)
(* never ends normally and never goes past the plot call of that series;   *)
(* when it has failed it stands at that plot call; its figure holds only   *)
(* full-length lines (nothing cut or filled to fit); it calls savefig      *)
(* never, writes no file and prints nothing.                               *)
(***************************************************************************)
C4_MismatchFailsAtPlot ==
    \A p \in Procs :
        (Started(p) /\ Mismatched(script[p]) # {}) =>
            LET s == script[p]
                bad == { k \in PlotSteps(s) :
                           \E m \in Mismatched(s) : Prog(s)[k].arg.y = SeriesNames(s)[m] }
            IN  /\ status[p] # "done"
                /\ \A k \in bad : pc[p] <= k
                /\ status[p] = "failed" => pc[p] \in bad
                /\ \A l \in LinesOf(fig[p]) :
                       /\ Len(l.y) = 4 /\ Len(l.x) = 4
                       /\ \E n \in 1..Len(SeriesNames(s)) :
                              n \notin Mismatched(s) /\ l.y = text[s][SeriesNames(s)[n]]
                /\ attempts[p] = 0
                /\ writes[p] = <<>>
                /\ stdout[p] = <<>>
                /\ \A f \in Paths : files[f] = <<>>

\* The cache-miss script with a value missing from llc_misses_a2 has failed
\* at the fifth plot call, four lines drawn.
C4_Witness ==
    \E p \in Procs :
        /\ script[p] = "cache_misses"
        /\ Len(text["cache_misses"]["llc_misses_a2"]) = 3
        /\ status[p] = "failed"
        /\ Instr(p).op = "plot"
        /\ Instr(p).arg.y = "llc_misses_a2"
        /\ Len(fig[p].axes[1].lines) = 3
        /\ Len(fig[p].axes[2].lines) = 1

(***************************************************************************)
(* C5.  With the four scripts running as four processes: the four output   *)
(* names are pairwise distinct; every file has at most one writing         *)
(* process, the one whose script the file is named after; a file that      *)
(* exists holds what that process wrote; and once all four have ended      *)
(* normally each of the four files holds the output of its own script.     *)
(***************************************************************************)
C5_DistinctOutputFiles ==
    /\ \A s, t \in Scripts : s # t => OutputName(s) # OutputName(t)
    /\ \A f \in Paths :
           /\ Cardinality({ p \in Procs : f \in WrittenPaths(p) }) <= 1
           /\ \A p \in Procs : f \in WrittenPaths(p) =>
                  /\ f = OutputName(script[p])
                  /\ files[f] = <<writes[p][1].content>>
           /\ files[f] # <<>> => \E p \in Procs : f \in WrittenPaths(p)
    /\ (\A p \in Procs : status[p] = "done") =>
           \A p \in Procs :
               /\ script[p] = ScriptList[p]
               /\ files[OutputName(script[p])] = <<Render(fig[p], [dpi |-> 200, bbox_inches |-> "tight"])>>

\* All four processes have ended normally and all four files exist.
C5_Witness ==
    /\ Cardinality(Procs) = 4
    /\ \A p \in Procs : status[p] = "done"
    /\ { script[p] : p \in Procs } = Scripts
    /\ \A f \in Paths : files[f] # <<>>

(***************************************************************************)
(* C6 as stated.  No two invocations that are running at the same time     *)
(* have written the same file.                                             *)
(***************************************************************************)
C6_NoSharedWrites ==
    \A p, q \in Procs :
        (p # q /\ status[p] = "running" /\ status[q] = "running") =>
            WrittenPaths(p) \cap WrittenPaths(q) = {}

(***************************************************************************)
(* C6 as amended.  Two invocations that have both written wrote the same   *)
(* file exactly when they run the same script: invocations of different    *)
(* scripts share no written file, invocations of one script share its      *)
(* fixed output file.                                                      *)
(***************************************************************************)
C6_SharedOnlyWithinScript ==
    \A p, q \in Procs :
        (p # q /\ writes[p] # <<>> /\ writes[q] # <<>>) =>
            /\ script[p] # script[q] => WrittenPaths(p) \cap WrittenPaths(q) = {}
            /\ script[p] = script[q] => WrittenPaths(p) = WrittenPaths(q)

\* Two invocations of different scripts, both still running, both past
\* their write.
C6_Witness ==
    \E p, q \in Procs :
        /\ script[p] = "latency" /\ script[q] = "throughput"
        /\ At(p, "print") /\ At(q, "print")
        /\ writes[p] # <<>> /\ writes[q] # <<>>

(***************************************************************************)
(* C7.  Two invocations of the same script that have both saved wrote the  *)
(* same path and the same rendering (figure size, panels, ticks, tick      *)
(* labels, lines in order with their values, options of the save), and the *)
(* file holds exactly that rendering, whatever the file held before.       *)
(***************************************************************************)
C7_Idempotent ==
    \A p, q \in Procs :
        (script[p] = script[q] /\ writes[p] # <<>> /\ writes[q] # <<>>) =>
            /\ writes[p] = writes[q]
            /\ Len(writes[p]) = 1
            /\ files[writes[p][1].path] = <<writes[q][1].content>>

\* The cache-miss script has been run twice to its normal end.
C7_Witness ==
    \E p, q \in Procs :
        /\ p # q
        /\ script[p] = "cache_misses" /\ script[q] = "cache_misses"
        /\ status[p] = "done" /\ status[q] = "done"
        /\ files["MT25082_cache_misses.png"] # <<>>

(***************************************************************************)
(* C8.  In the cache-miss, cycles-per-byte and throughput scripts, ticks   *)
(* are only ever fixed on a panel whose x-scale is already log base 2, and *)
(* every image saved shows, on each of its panels, a log base 2 x-scale    *)
(* with ticks fixed at 64, 256, 1024, 4096 labelled "64", "256", "1024",   *)
(* "4096".                                                                 *)
(***************************************************************************)
C8_LogPanelTicks ==
    \A p \in Procs :
        (Started(p) /\ script[p] \in LogScripts) =>
            /\ \A k \in 1..Len(fig[p].axes) :
                   (fig[p].axes[k].xticks.fixed \/ fig[p].axes[k].xticklabels.fixed) =>
                       fig[p].axes[k].xscale = [name |-> "log", base |-> 2]
            /\ \A w \in 1..Len(writes[p]) :
                   LET f == writes[p][w].content.fig
                   IN  /\ Len(f.axes) = (IF script[p] = "cache_misses" THEN 2 ELSE 1)
                       /\ \A k \in 1..Len(f.axes) :
                              /\ f.axes[k].xscale = [name |-> "log", base |-> 2]
                              /\ f.axes[k].xticks = [fixed |-> TRUE, at |-> <<64, 256, 1024, 4096>>]
                              /\ f.axes[k].xticklabels =
                                     [fixed |-> TRUE, labels |-> <<"64", "256", "1024", "4096">>]

\* The cache-miss script has saved its two-panel image.
C8_Witness ==
    \E p \in Procs :
        /\ script[p] = "cache_misses"
        /\ Len(writes[p]) = 1
        /\ Len(writes[p][1].content.fig.axes) = 2
        /\ writes[p][1].content.fig.axes[2].xticks.fixed

(***************************************************************************)
(* C9.  The latency script's figure never has more than one panel and its  *)
(* x-scale is linear in every state of the run; the image it saves has     *)
(* exactly one panel, ticks fixed at 1, 2, 4, 8.  Every image the other    *)
(* three scripts save has a log base 2 x-scale on every panel.             *)
(***************************************************************************)
C9_LatencyLinear ==
    \A p \in Procs :
        Started(p) =>
            /\ script[p] = "latency" =>
                   /\ Len(fig[p].axes) <= 1
                   /\ \A k \in 1..Len(fig[p].axes) : fig[p].axes[k].xscale.name = "linear"
                   /\ { Prog(script[p])[k].op : k \in 1..Len(Prog(script[p])) }
                          \cap {"set_xscale"} = {}
                   /\ \A w \in 1..Len(writes[p]) :
                          LET f == writes[p][w].content.fig
                          IN  /\ Len(f.axes) = 1
                              /\ f.axes[1].xscale.name = "linear"
                              /\ f.axes[1].xticks = [fixed |-> TRUE, at |-> <<1, 2, 4, 8>>]
            /\ script[p] # "latency" =>
                   \A w \in 1..Len(writes[p]) :
                       LET f == writes[p][w].content.fig
                       IN  \A k \in 1..Len(f.axes) :
                               f.axes[k].xscale = [name |-> "log", base |-> 2]

\* The latency script has saved its image.
C9_Witness ==
    \E p \in Procs :
        /\ script[p] = "latency"
        /\ Len(writes[p]) = 1
        /\ writes[p][1].content.fig.axes[1].xticks.fixed

(***************************************************************************)
(* C10.  The j-th line of the k-th panel has as y-values the literal list  *)
(* of series 3(k-1)+j of the script and as x-values the script's axis      *)
(* list, element for element, and carries the j-th of the labels two-copy, *)
(* one-copy, zero-copy; a saved image has three such lines per panel; the  *)
(* throughput script's first line has y-values 0.1032, 0.4394, 1.6734,     *)
(* 6.2939 at x = 64, 256, 1024, 4096.                                      *)
(***************************************************************************)
C10_LinesCarryLiterals ==
    \A p \in Procs :
        Started(p) =>
            /\ \A k \in 1..Len(fig[p].axes) :
                   \A j \in 1..Len(fig[p].axes[k].lines) :
                       LET l == fig[p].axes[k].lines[j]
                           lit == ShippedData(script[p])
                       IN  /\ j <= 3
                           /\ Len(l.y) = Len(l.x)
                           /\ \A i \in 1..Len(l.x) :
                                  /\ l.x[i] = lit[AxisName(script[p])][i]
                                  /\ l.y[i] = lit[SeriesNames(script[p])[3 * (k - 1) + j]][i]
                           /\ l.label = <<"A1: Two-Copy (send/recv)",
                                          "A2: One-Copy (sendmsg + iovec)",
                                          "A3: Zero-Copy (MSG_ZEROCOPY)">>[j]
            /\ \A w \in 1..Len(writes[p]) :
                   /\ writes[p][w].content.fig = fig[p]
                   /\ \A k \in 1..Len(fig[p].axes) : Len(fig[p].axes[k].lines) = 3
            /\ (script[p] = "throughput" /\ fig[p].axes # <<>>
                  /\ fig[p].axes[1].lines # <<>>) =>
                   /\ fig[p].axes[1].lines[1].x = <<64, 256, 1024, 4096>>
                   /\ fig[p].axes[1].lines[1].y =
                          <<Dec(1032, 4), Dec(4394, 4), Dec(16734, 4), Dec(62939, 4)>>

\* The throughput script has saved an image with its three lines drawn.
C10_Witness ==
    \E p \in Procs :
        /\ script[p] = "throughput"
        /\ Len(writes[p]) = 1
        /\ Len(writes[p][1].content.fig.axes[1].lines) = 3

====
